---- MODULE Spec2Model ----
(***************************************************************************)
(* LinkBoard: a Streamlit record browser.                                  *)
(*   src/app.py                    load -> normalise positions -> sidebar  *)
(*                                 filters -> filter -> sort -> cards      *)
(*   src/previous/LinkBoard_v1.py  the same browser with the add form and  *)
(*                                 save_data (whole-file rewrite)          *)
(* Text is modelled as a sequence of one-character strings so that strip,  *)
(* lower, split, substring search, int(), float() and str() are computed   *)
(* as Python computes them.  A JSON value is a record [k, n, s]: an        *)
(* integer (k = "int", n), a string (k = "str", s) or null (k = "null").   *)
(* A movie is a function from the keys it has to their values; a key that  *)
(* is not in its domain is a missing key.                                  *)
(***************************************************************************)
EXTENDS Integers, Sequences, FiniteSets, TLC

\* ------------------------------------------------------------------ bounds
\* longest catalog on disk when a script run starts
MaxLen == 2
\* most entries picked over the multiselects of the sidebar
MaxSelected == 2
\* add-form submissions per session (LinkBoard_v1)
MaxAdds == 1

\* ------------------------------------------------------------ JSON values
I(n) == [k |-> "int", n |-> n, s |-> <<>>]
S(s) == [k |-> "str", n |-> 0, s |-> s]
Null == [k |-> "null", n |-> 0, s |-> <<>>]

\* dict.get(key, default)
Get(movie, key, default) == IF key \in DOMAIN movie THEN movie[key] ELSE default

\* ------------------------------------------------------------------- text
Digits == <<"0", "1", "2", "3", "4", "5", "6", "7", "8", "9">>
UpperCase == <<"A", "B", "C", "D", "E", "F", "G", "H", "I", "J", "K", "L", "M",
               "N", "O", "P", "Q", "R", "S", "T", "U", "V", "W", "X", "Y", "Z">>
LowerCase == <<"a", "b", "c", "d", "e", "f", "g", "h", "i", "j", "k", "l", "m",
               "n", "o", "p", "q", "r", "s", "t", "u", "v", "w", "x", "y", "z">>
\* the order of the characters the model uses, by code point
CodeOrder == <<" ", "+", ",", "-", ".">> \o Digits \o UpperCase \o LowerCase

IsDigit(c) == \E i \in 1..10 : Digits[i] = c
DigitVal(c) == (CHOOSE i \in 1..10 : Digits[i] = c) - 1
IsSpace(c) == c = " "
Ord(c) == CHOOSE i \in 1..Len(CodeOrder) : CodeOrder[i] = c

RECURSIVE IntToStr(_)
\* str(n) for an int n >= 0
IntToStr(n) ==
    IF n < 10 THEN <<Digits[n + 1]>>
    ELSE IntToStr(n \div 10) \o <<Digits[(n % 10) + 1]>>

\* str(v)
PyStr(v) ==
    CASE v.k = "int" -> IntToStr(v.n)
      [] v.k = "str" -> v.s
      [] v.k = "null" -> <<"N", "o", "n", "e">>

RECURSIVE LStrip(_)
LStrip(s) == IF s # <<>> /\ IsSpace(Head(s)) THEN LStrip(Tail(s)) ELSE s
RECURSIVE RStrip(_)
RStrip(s) ==
    IF s # <<>> /\ IsSpace(s[Len(s)]) THEN RStrip(SubSeq(s, 1, Len(s) - 1)) ELSE s
\* str.strip()
Strip(s) == RStrip(LStrip(s))

LowerChar(c) ==
    IF \E i \in 1..26 : UpperCase[i] = c
    THEN LowerCase[CHOOSE i \in 1..26 : UpperCase[i] = c]
    ELSE c
\* str.lower()
Lower(s) == [i \in 1..Len(s) |-> LowerChar(s[i])]

\* sub in s (substring test)
Contains(s, sub) ==
    \E i \in 0..(Len(s) - Len(sub)) : SubSeq(s, i + 1, i + Len(sub)) = sub

RECURSIVE Split(_, _)
\* s.split(sep), sep one character
Split(s, sep) ==
    IF \E i \in 1..Len(s) : s[i] = sep
    THEN LET i == CHOOSE j \in 1..Len(s) : s[j] = sep /\ \A h \in 1..(j - 1) : s[h] # sep
         IN <<SubSeq(s, 1, i - 1)>> \o Split(SubSeq(s, i + 1, Len(s)), sep)
    ELSE <<s>>

RECURSIVE DigitsVal(_)
DigitsVal(s) == IF s = <<>> THEN 0 ELSE DigitsVal(SubSeq(s, 1, Len(s) - 1)) * 10 + DigitVal(s[Len(s)])
AllDigits(s) == \A i \in 1..Len(s) : IsDigit(s[i])

RECURSIVE Pow10(_)
Pow10(n) == IF n = 0 THEN 1 ELSE 10 * Pow10(n - 1)

\* lexicographic s < t, by code point
RECURSIVE StrLess(_, _)
StrLess(s, t) ==
    IF t = <<>> THEN FALSE
    ELSE IF s = <<>> THEN TRUE
    ELSE IF Head(s) = Head(t) THEN StrLess(Tail(s), Tail(t))
    ELSE Ord(Head(s)) < Ord(Head(t))

\* a leading sign of a numeral, and the numeral without it
Sign(t) == IF t # <<>> /\ Head(t) = "-" THEN -1 ELSE 1
Unsigned(t) == IF t # <<>> /\ Head(t) \in {"+", "-"} THEN Tail(t) ELSE t

\* int(v): the value, "ValueError" or "TypeError"
PyInt(v) ==
    CASE v.k = "int" -> [r |-> "ok", v |-> v.n]
      [] v.k = "null" -> [r |-> "TypeError", v |-> 0]
      [] v.k = "str" ->
            LET t == Unsigned(Strip(v.s)) IN
            IF t # <<>> /\ AllDigits(t)
            THEN [r |-> "ok", v |-> Sign(Strip(v.s)) * DigitsVal(t)]
            ELSE [r |-> "ValueError", v |-> 0]

\* float(v): the value num/den, "ValueError" or "TypeError"; decimal
\* numerals only (no exponent, "inf" or "nan" among the samples)
PyFloat(v) ==
    CASE v.k = "int" -> [r |-> "ok", num |-> v.n, den |-> 1]
      [] v.k = "null" -> [r |-> "TypeError", num |-> 0, den |-> 1]
      [] v.k = "str" ->
            LET t == Unsigned(Strip(v.s))
                sign == Sign(Strip(v.s))
                parts == Split(t, ".")
            IN IF Len(parts) = 1 /\ t # <<>> /\ AllDigits(t)
               THEN [r |-> "ok", num |-> sign * DigitsVal(t), den |-> 1]
               ELSE IF Len(parts) = 2 /\ AllDigits(parts[1]) /\ AllDigits(parts[2])
                       /\ parts[1] \o parts[2] # <<>>
               THEN [r |-> "ok", num |-> sign * DigitsVal(parts[1] \o parts[2]),
                     den |-> Pow10(Len(parts[2]))]
               ELSE [r |-> "ValueError", num |-> 0, den |-> 1]

\* ------------------------------------------------------------ backing file
\* The catalog file is a sequence of chunks: one per record of the JSON array,
\* then the chunk that closes the array.  A write past the end leaves a hole.
EndTok == [eof |-> S(<<>>)]
HoleTok == [hole |-> S(<<>>)]
\* json.dump(data, f, indent=2): the chunks written for a list of movies
JsonDump(movies) == movies \o <<EndTok>>
WellFormed(content) ==
    /\ content # <<>>
    /\ content[Len(content)] = EndTok
    /\ \A i \in 1..(Len(content) - 1) : content[i] # EndTok /\ content[i] # HoleTok
\* json.load(f): the list, or JSONDecodeError
JsonLoad(content) ==
    IF WellFormed(content)
    THEN [r |-> "ok", v |-> SubSeq(content, 1, Len(content) - 1)]
    ELSE [r |-> "JSONDecodeError", v |-> <<>>]

\* ---------------------------------------------------------------- samples
tA == <<"A">>
tB == <<"B">>
tC == <<"C">>
tAsp == <<"A", " ">>
tX == <<"X">>
t12 == <<"1", "2">>
tNoir == <<"N", "o", "i", "r">>
tnoir == <<"n", "o", "i", "r">>
tDrama == <<"D", "r", "a", "m", "a">>
tS1 == <<"S", "1">>
tDash == <<"-">>
tabc == <<"a", "b", "c">>
t100 == <<"1", "0", "0">>
t7 == <<"7">>
t7p5 == <<"7", ".", "5">>
tHorror90s == <<"H", "o", "r", "r", "o", "r", " ", "C", "l", "a", "s", "s", "i", "c",
                " ", "1", "9", "9", "0", "s">>
tHorror == <<"H", "o", "r", "r", "o", "r", " ", "C", "l", "a", "s", "s", "i", "c">>
qHorror1990 == <<"h", "o", "r", "r", "o", "r", ",", " ", "1", "9", "9", "0">>
qCommas == <<",", " ", ",">>

cat_fields == <<"cat_1", "cat_2", "cat_3", "cat_4", "cat_5", "cat_6">>
star_fields == <<"star_1", "star_2", "star_3">>
pos_fields == <<"pos_1", "pos_2", "pos_3">>

\* a movie with the given keys set and every other key of the sample missing
Movie(dur, rate, s1, s2, p1, p2, cat, tags) ==
    [key \in {"duration", "rate", "star_1", "star_2", "star_3", "pos_1", "pos_2", "pos_3",
              "core_cat", "cat_1", "studio", "general_tags"} |->
        CASE key = "duration" -> dur
          [] key = "rate" -> rate
          [] key = "star_1" -> s1
          [] key = "star_2" -> s2
          [] key = "star_3" -> S(tDash)
          [] key = "pos_1" -> p1
          [] key = "pos_2" -> p2
          [] key = "pos_3" -> S(<<>>)
          [] key = "core_cat" -> S(tDrama)
          [] key = "cat_1" -> cat
          [] key = "studio" -> S(tS1)
          [] key = "general_tags" -> tags]
\* the movie with one key set to another value
With(movie, k, v) == [key \in DOMAIN movie |-> IF key = k THEN v ELSE movie[key]]
\* the movie without some keys (a JSON object that lacks them)
Without(movie, keys) == [key \in (DOMAIN movie) \ keys |-> movie[key]]

\* catalogs for the filter: stars, positions, unparseable and null numbers
FilterMovies ==
    { Movie(I(100), I(5), S(tA), S(tB), I(12), S(tX), S(tNoir), S(tHorror90s)),
      Movie(I(100), I(2), S(tA), S(tC), S(t12), S(<<>>), S(tnoir), S(tHorror)),
      With(Movie(I(30), S(t7p5), S(tAsp), S(tB), S(tX), I(12), S(tDash), S(<<>>)),
           "core_cat", S(tNoir)),
      Movie(S(tabc), I(9), S(tB), S(<<>>), S(<<>>), S(<<>>), S(tNoir), S(tHorror)),
      Without(Movie(Null, S(tDash), S(tC), S(tA), S(t12), S(tX), S(<<>>), Null),
              {"pos_2", "pos_3", "studio"}) }

\* catalogs for the sort: ties on duration, ties on duration and rate, numbers
\* stored as text, a missing key
SortMovies ==
    { Without(Movie(I(100), I(5), S(<<>>), S(<<>>), S(<<>>), S(<<>>), S(<<>>), S(<<>>)),
              {"star_1", "star_2", "star_3", "core_cat", "cat_1", "studio"}),
      Without(Movie(I(100), I(2), S(<<>>), S(<<>>), S(<<>>), S(<<>>), S(<<>>), S(<<>>)),
              {"star_1", "star_2", "star_3", "core_cat", "cat_1", "studio"}),
      Without(Movie(I(100), I(5), S(<<>>), S(<<>>), S(<<>>), S(<<>>), S(<<>>), S(tHorror)),
              {"star_1", "star_2", "star_3", "core_cat", "cat_1", "studio"}),
      Without(Movie(I(50), I(9), S(<<>>), S(<<>>), S(<<>>), S(<<>>), S(<<>>), S(<<>>)),
              {"star_1", "star_2", "star_3", "core_cat", "cat_1", "studio"}),
      Without(Movie(S(t100), S(t7), S(<<>>), S(<<>>), S(<<>>), S(<<>>), S(<<>>), S(<<>>)),
              {"star_1", "star_2", "star_3", "core_cat", "cat_1", "studio"}),
      Without(Movie(I(0), I(5), S(<<>>), S(<<>>), S(<<>>), S(<<>>), S(<<>>), S(<<>>)),
              {"duration", "star_1", "star_2", "star_3", "core_cat", "cat_1", "studio"}) }

SeqsUpTo(set, n) == UNION { [1..len -> set] : len \in 0..n }

\* what the sliders can be set to: the defaults and one other setting each
DurationRanges == { <<60, 150>>, <<0, 300>> }
RatingRanges == { <<1, 10>>, <<5, 10>> }
TagQueries == { <<>>, qHorror1990, qCommas }
RadioOrders == { "Max", "Min", "None" }
RadioPriority == { "Duration", "Rating", "None" }

\* ------------------------------------------------------------------ state
VARIABLES
    disk,               \* data/links.json: [exists, content]
    pc,                 \* app.py: where the script run is
    error,              \* app.py: the exception that ended the run, or "none"
    data,               \* app.py line 29
    duration_range, rating_range, core_cat_selected, cats_selected, tag_search,
    actors_selected, studio_selected, positions_selected,   \* lines 52-70
    filtered,           \* line 117
    primary_sort, dur_order, rate_order,                    \* lines 127-131
    sort_instructions,  \* line 136, then what the loop of line 149 has left
    df_filtered,        \* lines 118, 150: the rows, in order
    shown,              \* lines 186-217: "cards" or "info"
    sess,               \* LinkBoard_v1: per session, its run of the script
    lastSaved           \* LinkBoard_v1: the sessions in the order their saves ended

sidebar == <<duration_range, rating_range, core_cat_selected, cats_selected, tag_search,
             actors_selected, studio_selected, positions_selected>>
sortbar == <<primary_sort, dur_order, rate_order>>
appvars == <<pc, error, data, sidebar, filtered, sortbar, sort_instructions,
             df_filtered, shown>>
v1vars == <<sess, lastSaved>>
vars == <<disk, appvars, v1vars>>

Range(seq) == { seq[i] : i \in 1..Len(seq) }

\* ------------------------------------------------------- app.py: load, 13-37
\* load_data(): the list, [] when the file is absent
load_data ==
    IF disk.exists THEN JsonLoad(disk.content) ELSE [r |-> "ok", v |-> <<>>]

\* pd.DataFrame(rows).columns: the keys some row has
Columns(rows) == UNION { DOMAIN rows[i] : i \in 1..Len(rows) }

\* a slip: the positions are left as they were loaded
NormalizeRaw(movie) == movie
\* lines 35-37, one movie: movie[pos_field] = str(movie.get(pos_field, ""))
NormalizePositions(movie) ==
    [key \in (DOMAIN movie) \cup Range(pos_fields) |->
        IF key \in Range(pos_fields) THEN S(PyStr(Get(movie, key, S(<<>>))))
        ELSE movie[key]]

\* lines 19-26; the sorted list is used as the pool of a multiselect only
extract_unique(movies, fields) ==
    { Strip(PyStr(Get(movies[i], fields[j], S(<<>>)))) :
         i \in 1..Len(movies), j \in 1..Len(fields) } \ { <<>>, tDash }

LoadData ==
    /\ pc = "load"
    /\ LET got == load_data IN
       IF got.r = "ok"
       THEN /\ data' = got.v
            /\ pc' = "normalize"
            /\ error' = error
       ELSE /\ data' = data
            /\ pc' = "crashed"
            /\ error' = got.r
    /\ UNCHANGED <<disk, sidebar, filtered, sortbar, sort_instructions, df_filtered,
                   shown, v1vars>>

\* lines 30-37: df[pos_field] raises KeyError when no row has the column
Normalize ==
    /\ pc = "normalize"
    /\ IF Range(pos_fields) \subseteq Columns(data)
       THEN /\ data' = [i \in 1..Len(data) |-> NormalizePositions(data[i])]
            /\ pc' = "sidebar"
            /\ error' = error
       ELSE /\ data' = data
            /\ pc' = "crashed"
            /\ error' = "KeyError"
    /\ UNCHANGED <<disk, sidebar, filtered, sortbar, sort_instructions, df_filtered,
                   shown, v1vars>>

\* ---------------------------------------------------- app.py: sidebar, 52-70
Options ==
    ({"core"} \X extract_unique(data, <<"core_cat">>))
    \cup ({"cats"} \X extract_unique(data, cat_fields))
    \cup ({"actors"} \X extract_unique(data, star_fields))
    \cup ({"studio"} \X extract_unique(data, <<"studio">>))
    \cup ({"positions"} \X extract_unique(data, pos_fields))
Picked(picks, widget) == { p[2] : p \in { q \in picks : q[1] = widget } }

Sidebar ==
    /\ pc = "sidebar"
    /\ \E dr \in DurationRanges, rr \in RatingRanges, tq \in TagQueries :
         \E picks \in { ps \in SUBSET Options : Cardinality(ps) <= MaxSelected } :
            /\ duration_range' = dr
            /\ rating_range' = rr
            /\ tag_search' = tq
            /\ core_cat_selected' = Picked(picks, "core")
            /\ cats_selected' = Picked(picks, "cats")
            /\ actors_selected' = Picked(picks, "actors")
            /\ studio_selected' = Picked(picks, "studio")
            /\ positions_selected' = Picked(picks, "positions")
    /\ pc' = "filter"
    /\ UNCHANGED <<disk, error, data, filtered, sortbar, sort_instructions, df_filtered,
                   shown, v1vars>>

\* --------------------------------------------------- app.py: filter, 75-117
\* lines 76-81: "pass", "fail", or the exception int() raises
DurationCheck(movie) ==
    LET p == PyInt(Get(movie, "duration", I(0)))
        duration == IF p.r = "ok" THEN p.v ELSE 0
    IN IF p.r = "TypeError" THEN "TypeError"
       ELSE IF duration_range[1] <= duration /\ duration <= duration_range[2]
       THEN "pass" ELSE "fail"

\* a slip: the slider's lowest value, 1, in place of the chosen lower end
RateCheckLowOnly(movie) ==
    LET p == PyFloat(Get(movie, "rate", I(0)))
        num == IF p.r = "ok" THEN p.num ELSE 0
        den == IF p.r = "ok" THEN p.den ELSE 1
    IN IF p.r = "TypeError" THEN "TypeError"
       ELSE IF 1 * den <= num /\ num <= rating_range[2] * den
       THEN "pass" ELSE "fail"
\* lines 83-88
RateCheck(movie) ==
    LET p == PyFloat(Get(movie, "rate", I(0)))
        num == IF p.r = "ok" THEN p.num ELSE 0
        den == IF p.r = "ok" THEN p.den ELSE 1
    IN IF p.r = "TypeError" THEN "TypeError"
       ELSE IF rating_range[1] * den <= num /\ num <= rating_range[2] * den
       THEN "pass" ELSE "fail"

\* line 90
CoreCatCheck(movie) ==
    ~ (core_cat_selected # {} /\ Get(movie, "core_cat", S(<<>>)) \notin { S(c) : c \in core_cat_selected })

\* lines 93-95
CatsCheck(movie) ==
    LET movie_cats == { Lower(Strip(PyStr(Get(movie, cat_fields[j], S(<<>>))))) : j \in 1..Len(cat_fields) }
    IN ~ (cats_selected # {} /\ ~ \E cat \in cats_selected : Lower(cat) \in movie_cats)

\* a slip: any() in place of all()
ActorsCheckAny(movie) ==
    LET movie_actors == { Get(movie, star_fields[j], S(<<>>)) : j \in 1..Len(star_fields) }
    IN ~ (actors_selected # {} /\ ~ \E actor \in actors_selected : S(actor) \in movie_actors)
\* lines 97-99
ActorsCheck(movie) ==
    LET movie_actors == { Get(movie, star_fields[j], S(<<>>)) : j \in 1..Len(star_fields) }
    IN ~ (actors_selected # {} /\ ~ \A actor \in actors_selected : S(actor) \in movie_actors)

\* lines 101-103
PositionsCheck(movie) ==
    LET movie_positions == { Get(movie, pos_fields[j], S(<<>>)) : j \in 1..Len(pos_fields) }
    IN ~ (positions_selected # {} /\ ~ \E pos \in positions_selected : S(pos) \in movie_positions)

\* line 105
StudioCheck(movie) ==
    ~ (studio_selected # {} /\ Get(movie, "studio", S(<<>>)) \notin { S(c) : c \in studio_selected })

\* lines 108-112
TagsCheck(movie) ==
    IF tag_search # <<>>
    THEN LET parts == Split(tag_search, ",")
             tags == { Lower(Strip(parts[j])) : j \in { h \in 1..Len(parts) : Strip(parts[h]) # <<>> } }
             movie_tags == Lower(PyStr(Get(movie, "general_tags", S(<<>>))))
         IN \A tag \in tags : Contains(movie_tags, tag)
    ELSE TRUE

\* lines 75-114: "pass" (True), "fail" (False) or the exception raised
matches_filters(movie) ==
    IF DurationCheck(movie) # "pass" THEN DurationCheck(movie)
    ELSE IF RateCheck(movie) # "pass" THEN RateCheck(movie)
    ELSE IF /\ CoreCatCheck(movie)
            /\ CatsCheck(movie)
            /\ ActorsCheck(movie)
            /\ PositionsCheck(movie)
            /\ StudioCheck(movie)
            /\ TagsCheck(movie)
    THEN "pass" ELSE "fail"

Keep(movie) == matches_filters(movie) = "pass"

\* line 117: list(filter(matches_filters, data)); an exception ends the run
Filter ==
    /\ pc = "filter"
    /\ IF \E i \in 1..Len(data) : matches_filters(data[i]) = "TypeError"
       THEN /\ filtered' = filtered
            /\ df_filtered' = df_filtered
            /\ pc' = "crashed"
            /\ error' = "TypeError"
       ELSE /\ filtered' = SelectSeq(data, Keep)
            /\ df_filtered' = SelectSeq(data, Keep)
            /\ pc' = "sortbar"
            /\ error' = error
    /\ UNCHANGED <<disk, data, sidebar, sortbar, sort_instructions, shown, v1vars>>

\* ----------------------------------------------------- app.py: sort, 127-150
\* lines 136-147: (column, ascending) pairs, the priority field first
SortInstructions(primary, dur, rate) ==
    LET d == IF dur # "None" THEN << <<"duration", dur = "Min">> >> ELSE <<>>
        r == IF rate # "None" THEN << <<"rate", rate = "Min">> >> ELSE <<>>
    IN CASE primary = "Duration" -> d \o r
         [] primary = "Rating" -> r \o d
         [] OTHER -> <<>>

\* lines 127-147; line 149 walks the list from its end
SortBar ==
    /\ pc = "sortbar"
    /\ \E p \in RadioPriority, d \in RadioOrders, r \in RadioOrders :
          /\ primary_sort' = p
          /\ dur_order' = d
          /\ rate_order' = r
          /\ sort_instructions' = SortInstructions(p, d, r)
    /\ pc' = "sort"
    /\ UNCHANGED <<disk, error, data, sidebar, filtered, df_filtered, shown, v1vars>>

\* a DataFrame cell: a missing key or a null is NaN
IsNaN(row, col) == col \notin DOMAIN row \/ row[col].k = "null"
\* a < b as sort_values compares two cells of one kind
CellLess(a, b) == IF a.k = "int" THEN a.n < b.n ELSE StrLess(a.s, b.s)
\* '<' between str and int raises TypeError
MixedColumn(rows, col) ==
    \E i, j \in 1..Len(rows) :
        /\ ~ IsNaN(rows[i], col) /\ ~ IsNaN(rows[j], col)
        /\ rows[i][col].k # rows[j][col].k

Perms(n) == { q \in [1..n -> 1..n] : \A i, j \in 1..n : q[i] = q[j] => i = j }

\* DataFrame.sort_values(by=col, ascending=asc) with the default kind
\* ("quicksort", not stable): every order of the rows that has the cells in
\* order, the rows without a value last in their own order.
sort_values(rows, col, asc) ==
    { [i \in 1..Len(rows) |-> rows[q[i]]] : q \in
        { q \in Perms(Len(rows)) :
            \A i, j \in 1..Len(rows) : i < j =>
                LET a == rows[q[i]]
                    b == rows[q[j]]
                IN /\ IsNaN(a, col) => IsNaN(b, col)
                   /\ (IsNaN(a, col) /\ IsNaN(b, col)) => q[i] < q[j]
                   /\ (~ IsNaN(a, col) /\ ~ IsNaN(b, col)) =>
                         IF asc THEN ~ CellLess(b[col], a[col])
                                ELSE ~ CellLess(a[col], b[col]) } }

\* lines 149-150, one pass of the loop
SortPass ==
    /\ pc = "sort"
    /\ sort_instructions # <<>>
    /\ LET last == sort_instructions[Len(sort_instructions)]
           col == last[1]
       IN IF col \notin Columns(df_filtered)
          THEN /\ pc' = "crashed"
               /\ error' = "KeyError"
               /\ UNCHANGED <<df_filtered, sort_instructions>>
          ELSE IF MixedColumn(df_filtered, col)
          THEN /\ pc' = "crashed"
               /\ error' = "TypeError"
               /\ UNCHANGED <<df_filtered, sort_instructions>>
          ELSE /\ df_filtered' \in sort_values(df_filtered, col, last[2])
               /\ sort_instructions' = SubSeq(sort_instructions, 1, Len(sort_instructions) - 1)
               /\ UNCHANGED <<pc, error>>
    /\ UNCHANGED <<disk, data, sidebar, filtered, sortbar, shown, v1vars>>

\* lines 186-217
Render ==
    /\ pc = "sort"
    /\ sort_instructions = <<>>
    /\ shown' = IF Len(df_filtered) > 0 THEN "cards" ELSE "info"
    /\ pc' = "done"
    /\ UNCHANGED <<disk, error, data, sidebar, filtered, sortbar, sort_instructions,
                   df_filtered, v1vars>>

\* -------------------------------------------------------- app.py: script run
DiskOf(movies) == [exists |-> TRUE, content |-> JsonDump(movies)]
NoDisk == [exists |-> FALSE, content |-> <<>>]

AppStart ==
    /\ pc = "load"
    /\ error = "none"
    /\ data = <<>>
    /\ duration_range = <<60, 150>>
    /\ rating_range = <<1, 10>>
    /\ core_cat_selected = {}
    /\ cats_selected = {}
    /\ tag_search = <<>>
    /\ actors_selected = {}
    /\ studio_selected = {}
    /\ positions_selected = {}
    /\ filtered = <<>>
    /\ primary_sort = "Duration"
    /\ dur_order = "Max"
    /\ rate_order = "Max"
    /\ sort_instructions = <<>>
    /\ df_filtered = <<>>
    /\ shown = ""
V1Idle ==
    /\ sess = <<>>
    /\ lastSaved = <<>>

\* the whole script of app.py over a catalog of the sort samples
Init ==
    /\ disk \in {NoDisk} \cup { DiskOf(c) : c \in SeqsUpTo(SortMovies, MaxLen + 1) }
    /\ AppStart
    /\ V1Idle
Next == LoadData \/ Normalize \/ Sidebar \/ Filter \/ SortBar \/ SortPass \/ Render
Spec == Init /\ [][Next]_vars

\* the script of app.py up to line 118 over a catalog of the filter samples
InitFilter ==
    /\ disk \in {NoDisk} \cup { DiskOf(c) : c \in SeqsUpTo(FilterMovies, MaxLen) }
    /\ AppStart
    /\ V1Idle
NextFilter == LoadData \/ Normalize \/ Sidebar \/ Filter
SpecFilter == InitFilter /\ [][NextFilter]_vars

\* ------------------------------------------- LinkBoard_v1.py: load, add, save
Sessions == {1, 2}

\* catalogs for the add form: a position stored as a number, and as text
\* (with every column the table of lines 200-202 shows, so that the run of
\* lines 86-225, which changes nothing, reaches the form)
Linked(movie) ==
    [key \in DOMAIN movie \cup {"main_link", "website"} |->
        IF key \in {"main_link", "website"} THEN S(<<>>) ELSE movie[key]]
V1Movies ==
    { Linked(Movie(I(100), I(5), S(tA), S(tB), I(12), S(tX), S(tNoir), S(tHorror))),
      Linked(Movie(I(50), I(9), S(tC), S(<<>>), S(t12), S(<<>>), S(tnoir), S(<<>>))) }

\* lines 257-277: what the form builds (number_input and slider give ints,
\* text_input gives text, "website" is the host of the link)
NewMovies ==
    { Linked(Movie(I(90), I(7), S(tA), S(<<>>), S(tX), S(<<>>), S(<<>>), S(<<>>))),
      Linked(Movie(I(45), I(3), S(tB), S(<<>>), S(<<>>), S(<<>>), S(<<>>), S(<<>>))) }

\* f.write at the file object's own position
WriteAt(content, offset, chunk) ==
    IF offset < Len(content)
    THEN [content EXCEPT ![offset + 1] = chunk]
    ELSE content \o [i \in 1..(offset - Len(content)) |-> HoleTok] \o <<chunk>>

RECURSIVE WriteAll(_, _, _)
WriteAll(content, offset, chunks) ==
    IF chunks = <<>> THEN content
    ELSE WriteAll(WriteAt(content, offset, Head(chunks)), offset + 1, Tail(chunks))

SessionStart ==
    [pc |-> "load", err |-> "none", data |-> <<>>, loaded |-> <<>>, added |-> <<>>,
     before |-> NoDisk, out |-> <<>>, offset |-> 0, adds |-> 0]

\* line 33: data = load_data()
V1Load(s) ==
    /\ sess[s].pc = "load"
    /\ LET got == load_data IN
       sess' = [sess EXCEPT ![s] =
                  IF got.r = "ok"
                  THEN [@ EXCEPT !.pc = "normalize", !.data = got.v,
                                 !.loaded = IF sess[s].adds = 0 THEN got.v ELSE @]
                  ELSE [@ EXCEPT !.pc = "crashed", !.err = got.r]]
    /\ UNCHANGED <<disk, lastSaved, appvars>>

\* lines 34-42
V1Normalize(s) ==
    /\ sess[s].pc = "normalize"
    /\ sess' = [sess EXCEPT ![s] =
                  IF Range(pos_fields) \subseteq Columns(sess[s].data)
                  THEN [@ EXCEPT !.pc = "form",
                                 !.data = [i \in 1..Len(sess[s].data) |->
                                              NormalizePositions(sess[s].data[i])]]
                  ELSE [@ EXCEPT !.pc = "crashed", !.err = "KeyError"]]
    /\ UNCHANGED <<disk, lastSaved, appvars>>

\* lines 256-278 and line 20: the form is submitted, the movie appended, and
\* save_data opens the file for writing, which empties it
V1Submit(s) ==
    /\ sess[s].pc = "form"
    /\ sess[s].adds < MaxAdds
    /\ \E new_movie \in NewMovies :
          sess' = [sess EXCEPT ![s] =
                     [@ EXCEPT !.pc = "saving",
                               !.data = Append(sess[s].data, new_movie),
                               !.added = Append(sess[s].added, new_movie),
                               !.before = disk,
                               !.out = JsonDump(Append(sess[s].data, new_movie)),
                               !.offset = 0]]
    /\ disk' = [exists |-> TRUE, content |-> <<>>]
    /\ UNCHANGED <<lastSaved, appvars>>

\* line 21: the buffer fills and is flushed: the next chunks reach the file
V1Write(s) ==
    /\ sess[s].pc = "saving"
    /\ \E k \in 1..(Len(sess[s].out) - 1) :
          /\ disk' = [exists |-> TRUE,
                      content |-> WriteAll(disk.content, sess[s].offset,
                                           SubSeq(sess[s].out, 1, k))]
          /\ sess' = [sess EXCEPT ![s] =
                        [@ EXCEPT !.out = SubSeq(@, k + 1, Len(@)), !.offset = @ + k]]
    /\ UNCHANGED <<lastSaved, appvars>>

\* line 21: a write fails (OSError), or the process is stopped, part-way
V1SaveFails(s) ==
    /\ sess[s].pc = "saving"
    /\ sess' = [sess EXCEPT ![s] = [@ EXCEPT !.pc = "crashed", !.err = "OSError"]]
    /\ UNCHANGED <<disk, lastSaved, appvars>>

\* lines 20-21, 280: the with block closes the file, which flushes what is
\* left in the buffer; save_data has returned
V1Close(s) ==
    /\ sess[s].pc = "saving"
    /\ disk' = [exists |-> TRUE,
                content |-> WriteAll(disk.content, sess[s].offset, sess[s].out)]
    /\ sess' = [sess EXCEPT ![s] =
                  [@ EXCEPT !.pc = "end", !.adds = @ + 1, !.out = <<>>,
                            !.offset = @ + Len(sess[s].out)]]
    /\ lastSaved' = Append(lastSaved, s)
    /\ UNCHANGED appvars

\* the next interaction reruns the script from its first line
V1Rerun(s) ==
    /\ sess[s].pc = "end"
    /\ sess' = [sess EXCEPT ![s] = [@ EXCEPT !.pc = "load"]]
    /\ UNCHANGED <<disk, lastSaved, appvars>>

InitV1 ==
    /\ disk \in {NoDisk} \cup { DiskOf(c) : c \in SeqsUpTo(V1Movies, MaxLen) }
    /\ AppStart
    /\ sess = [s \in Sessions |-> SessionStart]
    /\ lastSaved = <<>>
NextV1 ==
    \E s \in Sessions :
        \/ V1Load(s)
        \/ V1Normalize(s)
        \/ V1Submit(s)
        \/ V1Write(s)
        \/ V1SaveFails(s)
        \/ V1Close(s)
        \/ V1Rerun(s)
SpecV1 == InitV1 /\ [][NextV1]_vars

\* ================================================================== claims
\* no multiselect has a selection and the tag box is empty
NoSelections ==
    /\ core_cat_selected = {} /\ cats_selected = {} /\ actors_selected = {}
    /\ positions_selected = {} /\ studio_selected = {} /\ tag_search = <<>>
\* line 117 has run: it returned, or int()/float() raised out of it
FilterReturned == pc = "sortbar"
FilterRaised == pc = "crashed" /\ error = "TypeError"

\* the number a duration or rate stands for, 0 when it is no number
AsNumber(v) == IF PyFloat(v).r = "ok" THEN PyFloat(v) ELSE [r |-> "ok", num |-> 0, den |-> 1]
AsMinutes(v) == IF PyInt(v).r = "ok" THEN PyInt(v).v ELSE 0
DurationInside(movie) ==
    LET d == AsMinutes(Get(movie, "duration", I(0)))
    IN duration_range[1] <= d /\ d <= duration_range[2]
RateInside(movie) ==
    LET x == AsNumber(Get(movie, "rate", I(0)))
    IN rating_range[1] * x.den <= x.num /\ x.num <= rating_range[2] * x.den
InsideRanges(movie) == DurationInside(movie) /\ RateInside(movie)
\* a null the filter reads: the duration, or the rate of a movie whose duration is inside
ReadsNull(movie) ==
    \/ Get(movie, "duration", I(0)).k = "null"
    \/ DurationInside(movie) /\ Get(movie, "rate", I(0)).k = "null"

\* C1 (as stated): with every selection set empty and the tag query empty,
\* the filter returns the full input list in its original order.
C1_IdentityOnEmptySelections ==
    (FilterReturned /\ NoSelections) => filtered = data

\* C1 (amended): with every selection set empty and the tag query empty, the
\* two range sliders still apply: the filter returns, in the original order,
\* exactly the movies whose duration and rate lie inside the ranges, unless a
\* duration or rate it reads is null, and then it raises TypeError.
C1_RangesStillApply ==
    ((FilterReturned \/ FilterRaised) /\ NoSelections) =>
        IF \E i \in 1..Len(data) : ReadsNull(data[i])
        THEN FilterRaised
        ELSE FilterReturned /\ filtered = SelectSeq(data, InsideRanges)

\* C1 witness: nothing selected, and the ranges keep one movie and drop another
C1_Witness ==
    /\ FilterReturned /\ NoSelections
    /\ Len(filtered) > 0 /\ Len(filtered) < Len(data)

\* every criterion of matches_filters but the actors
PassesAllButActors(movie) ==
    /\ DurationCheck(movie) = "pass" /\ RateCheck(movie) = "pass"
    /\ CoreCatCheck(movie) /\ CatsCheck(movie) /\ PositionsCheck(movie)
    /\ StudioCheck(movie) /\ TagsCheck(movie)
\* every criterion of matches_filters but the positions
PassesAllButPositions(movie) ==
    /\ DurationCheck(movie) = "pass" /\ RateCheck(movie) = "pass"
    /\ CoreCatCheck(movie) /\ CatsCheck(movie) /\ ActorsCheck(movie)
    /\ StudioCheck(movie) /\ TagsCheck(movie)
Stars(movie) == { Get(movie, star_fields[j], S(<<>>)) : j \in 1..3 }

\* C2: with actors selected, a movie passes the actor criterion if and only
\* if every selected actor is exactly equal to one of its star_1..star_3.
C2_ActorsAllOf ==
    (FilterReturned /\ actors_selected # {}) =>
        \A i \in 1..Len(data) :
            PassesAllButActors(data[i]) =>
                (data[i] \in Range(filtered)
                    <=> \A actor \in actors_selected : S(actor) \in Stars(data[i]))

\* C2 witness: {A, B} selected; a movie with stars A and B is kept and one
\* with stars A and C, passing everything else, is dropped
C2_Witness ==
    /\ FilterReturned /\ actors_selected = {tA, tB}
    /\ \E i, j \in 1..Len(data) :
          /\ {S(tA), S(tB)} \subseteq Stars(data[i]) /\ data[i] \in Range(filtered)
          /\ {S(tA), S(tC)} \subseteq Stars(data[j]) /\ PassesAllButActors(data[j])
          /\ data[j] \notin Range(filtered)

\* the catalog as it is on disk, before line 37 rewrites the positions
OnDisk == JsonLoad(disk.content).v
PositionTexts(raw) == { PyStr(Get(raw, pos_fields[j], S(<<>>))) : j \in 1..3 }

\* C3: with positions selected, a movie passes the position criterion if and
\* only if some selected position equals, as text, one of the pos_1..pos_3 it
\* was stored with; a stored 12 and a stored "12" are treated alike.
C3_PositionsAnyOfAsText ==
    (FilterReturned /\ positions_selected # {}) =>
        /\ Len(OnDisk) = Len(data)
        /\ \A i \in 1..Len(data) :
              PassesAllButPositions(data[i]) =>
                  (data[i] \in Range(filtered)
                      <=> \E pos \in positions_selected : pos \in PositionTexts(OnDisk[i]))

\* C3 witness: "12" selected; a movie stored with the number 12 and a movie
\* stored with the text "12" are both kept, one without either is dropped
C3_Witness ==
    /\ FilterReturned /\ positions_selected = {t12}
    /\ \E i, j \in 1..Len(data) :
          /\ I(12) \in { Get(OnDisk[i], pos_fields[h], S(<<>>)) : h \in 1..3 }
          /\ S(t12) \notin { Get(OnDisk[i], pos_fields[h], S(<<>>)) : h \in 1..3 }
          /\ data[i] \in Range(filtered)
          /\ S(t12) \in { Get(OnDisk[j], pos_fields[h], S(<<>>)) : h \in 1..3 }
          /\ data[j] \in Range(filtered)

\* the column holds numbers in every row
NumbersIn(rows, col) ==
    \A i \in 1..Len(rows) : col \in DOMAIN rows[i] /\ rows[i][col].k = "int"
\* a comes strictly before b on col in the direction order ("Min" ascending)
Before(a, b, col, order) ==
    IF order = "Min" THEN a[col].n < b[col].n ELSE a[col].n > b[col].n
InOrder(rows, col, order) ==
    \A i, j \in 1..Len(rows) : i < j => ~ Before(rows[j], rows[i], col, order)
OrderOf(col) == IF col = "duration" THEN dur_order ELSE rate_order
FirstIndex(rows, row) == CHOOSE i \in 1..Len(rows) : rows[i] = row /\ \A h \in 1..(i - 1) : rows[h] # row

\* C4: with a priority field and both directions set, the output is ordered
\* by the priority field in its direction, ties on it by the other field in
\* its direction, and ties on both keep their filtered order.
C4_PriorityThenOtherStable ==
    (/\ pc = "done" /\ primary_sort # "None" /\ dur_order # "None" /\ rate_order # "None"
     /\ NumbersIn(filtered, "duration") /\ NumbersIn(filtered, "rate")) =>
        LET first == IF primary_sort = "Duration" THEN "duration" ELSE "rate"
            other == IF primary_sort = "Duration" THEN "rate" ELSE "duration"
        IN \A i, j \in 1..Len(df_filtered) : i < j =>
              LET a == df_filtered[i]
                  b == df_filtered[j]
              IN \/ Before(a, b, first, OrderOf(first))
                 \/ /\ a[first] = b[first]
                    /\ Before(a, b, other, OrderOf(other))
                 \/ /\ a[first] = b[first] /\ a[other] = b[other]
                    /\ FirstIndex(filtered, a) <= FirstIndex(filtered, b)

\* C5: with no priority field, every field whose direction is set is still a
\* sort key: the output is ordered by duration if the duration direction is
\* set and by rate if the rating direction is set.
C5_NoPriorityStillSorts ==
    (/\ pc = "done" /\ primary_sort = "None"
     /\ NumbersIn(filtered, "duration") /\ NumbersIn(filtered, "rate")) =>
        /\ dur_order # "None" => InOrder(df_filtered, "duration", dur_order)
        /\ rate_order # "None" => InOrder(df_filtered, "rate", rate_order)

\* C6: when the catalog file does not exist, load gives the empty list and
\* the run goes on, without an exception, to filter and render no records.
C6_MissingFileIsEmptyCatalog ==
    (~ disk.exists /\ pc # "load") =>
        /\ data = <<>>
        /\ error = "none" /\ pc # "crashed"
        /\ pc = "done" => shown = "info"

\* no number at all: text that float() rejects, or null
NotANumber(v) == v.k = "null" \/ (v.k = "str" /\ PyFloat(v).r # "ok")

\* C7: a duration or rate that is no number (text that does not parse, "",
\* "-", null, a missing key) counts as 0 and never raises: the filter
\* returns, and keeps the movie exactly when 0 is inside the range and the
\* other criteria pass.
C7_NotANumberCountsAsZero ==
    (FilterReturned \/ FilterRaised) =>
        /\ FilterReturned
        /\ \A i \in 1..Len(data) :
              (NotANumber(Get(data[i], "duration", I(0))) \/ NotANumber(Get(data[i], "rate", I(0)))) =>
                  (data[i] \in Range(filtered) <=>
                      /\ InsideRanges(data[i])
                      /\ CoreCatCheck(data[i]) /\ CatsCheck(data[i]) /\ ActorsCheck(data[i])
                      /\ PositionsCheck(data[i]) /\ StudioCheck(data[i]) /\ TagsCheck(data[i]))

\* the other session has not run the script at all
Alone(s) == \A t \in Sessions \ {s} : sess[t] = SessionStart

\* C8: during and after a save, also one that fails part-way, the file holds
\* the complete list it held before or the complete new list.
C8_SaveIsAtomic ==
    \A s \in Sessions :
        (Alone(s) /\ sess[s].added # <<>>) =>
            \/ disk = sess[s].before
            \/ disk = DiskOf(sess[s].data)

\* C9: after the add-form submissions of one session, the file holds the
\* records loaded at the session's start, field for field and in order, then
\* the added records in the order they were submitted.
C9_LoadedRecordsSavedUnchanged ==
    \A s \in Sessions :
        (Alone(s) /\ sess[s].pc = "end") =>
            disk = DiskOf(sess[s].loaded \o sess[s].added)

\* C10: two sessions each load and each submit one add; after both saves the
\* file equals the in-memory list of the session whose save ended last.
C10_LastSaveWins ==
    (\A s \in Sessions : sess[s].pc = "end" /\ sess[s].adds = 1) =>
        disk = DiskOf(sess[lastSaved[Len(lastSaved)]].data)

====
